---------------------------- MODULE Spec2Model ----------------------------
(***************************************************************************)
(* Polidle game engine (src/js/app.js): dataset loading, mode switching,   *)
(* turn advancement, guess handling, the photo onerror hook and keyboard   *)
(* input, as one state machine.  Every event handler of the page runs to   *)
(* completion, so each handler is one action.                              *)
(*                                                                         *)
(* Strings that the code orders (group sigles, through Array.sort) are     *)
(* sequences of UTF-16 code units; strings that the code parses (the       *)
(* localStorage value) are sequences of one-character strings.             *)
(***************************************************************************)
EXTENDS Integers, Sequences, FiniteSets

VARIABLES
    pc,            \* position of init(): "loading", "retryDeputes",
                   \* "retrySenateurs", "error" (error screen), "playing"
    deputes,       \* app.js:42
    senateurs,     \* app.js:43
    pool,          \* app.js:44
    currentIndex,  \* app.js:45  (0-based, as in the code)
    score,         \* app.js:46
    total,         \* app.js:47
    streak,        \* app.js:48
    bestStreak,    \* app.js:49
    mode,          \* app.js:50
    answered,      \* app.js:51
    parties,       \* app.js:52
    storage,       \* localStorage["polidle-best"]: Missing or a string
    shown,         \* the record whose photo is in els.photo (app.js:184,197)
    photoPending,  \* the request for els.photo.src has not completed yet
    buttons,       \* sigles of the buttons in els.partyGrid (app.js:222-238)
    reveal,        \* els.answerReveal: hidden flag and, while it is visible,
                   \* the icon and the group sigle it shows
    lastOp,        \* the handler that ran last, its argument and how it ended
    fetches,       \* per resource: the fetch() calls made by this page load
                   \* and how the last one ended ("none", "ok", "failed")
    maxStreak,     \* history: greatest value streak ever had
    consec,        \* history: judged-correct guesses since the last
                   \* judged-incorrect guess or pool rebuild
    seen           \* history: ids of the pool records displayed since
                   \* the cursor was last set to 0 (by shuffle() or by the
                   \* onerror hook); {LateFailure} once a photo failure
                   \* was reported on an answered candidate since then

vars == <<pc, deputes, senateurs, pool, currentIndex, score, total, streak,
          bestStreak, mode, answered, parties, storage, shown, photoPending,
          buttons, reveal, lastOp, fetches, maxStreak, consec, seen>>

-----------------------------------------------------------------------------
(* Bounds *)

\* Guesses accepted per game (between two mode switches).
MaxTotal == 2

-----------------------------------------------------------------------------
(* Data: the two JSON resources as the server holds them *)

RN  == <<82, 78>>
EPR == <<69, 80, 82>>
NoSigle == <<>>

Pol(id, type, sigle, photo) ==
    [id |-> id, type |-> type, groupe_sigle |-> sigle, photo |-> photo]

\* data/deputes.json: the third record has neither a photo nor a group.
DeputesJson ==
    << Pol("d1", "depute", RN, "d1.jpg"),
       Pol("d2", "depute", EPR, "d2.jpg"),
       Pol("d3", "depute", NoSigle, "") >>

\* data/senateurs.json
SenateursJson ==
    << Pol("s1", "senateur", RN, "s1.jpg") >>

NoPol == Pol("none", "", NoSigle, "")

-----------------------------------------------------------------------------
(* Sequence helpers standing for the JavaScript array methods used *)

Range(s) == {s[i] : i \in 1..Len(s)}

\* Array.prototype.splice(start, 1) with a 0-based start; a start at or past
\* the end removes nothing.
Splice1(s, start) ==
    IF start >= Len(s) THEN s
    ELSE SubSeq(s, 1, start) \o SubSeq(s, start + 2, Len(s))

\* [arr[i], arr[j]] = [arr[j], arr[i]]  (1-based positions here)
Swap(s, i, j) == [s EXCEPT ![i] = s[j], ![j] = s[i]]

\* shuffle(arr): Fisher-Yates from the last element down; Math.random()
\* makes j any index in 0..i, so the result is any member of this set.
RECURSIVE ShuffleFrom(_, _)
ShuffleFrom(s, i) ==
    IF i <= 1 THEN {s}
    ELSE UNION {ShuffleFrom(Swap(s, i, j), i - 1) : j \in 1..i}

shuffle(s) == ShuffleFrom(s, Len(s))

\* [...new Set(arr)]: first occurrences, in order.
RECURSIVE Dedupe(_)
Dedupe(s) ==
    IF s = <<>> THEN <<>>
    ELSE LET init == Dedupe(SubSeq(s, 1, Len(s) - 1))
             last == s[Len(s)]
         IN  IF last \in Range(init) THEN init ELSE Append(init, last)

\* Comparison of two strings by UTF-16 code units (the default order of
\* Array.prototype.sort).
RECURSIVE StrLess(_, _)
StrLess(a, b) ==
    IF b = <<>> THEN FALSE
    ELSE IF a = <<>> THEN TRUE
    ELSE IF Head(a) # Head(b) THEN Head(a) < Head(b)
    ELSE StrLess(Tail(a), Tail(b))

\* Array.prototype.sort() without a comparator, as an insertion sort.
RECURSIVE Insert(_, _)
Insert(x, s) ==
    IF s = <<>> THEN <<x>>
    ELSE IF StrLess(Head(s), x) THEN <<Head(s)>> \o Insert(x, Tail(s))
    ELSE <<x>> \o s

RECURSIVE Sort(_)
Sort(s) == IF s = <<>> THEN <<>> ELSE Insert(Head(s), Sort(Tail(s)))


-----------------------------------------------------------------------------
(* Durable state: localStorage["polidle-best"] *)

\* localStorage.getItem of a key that was never set returns null.
Missing == <<"null-value">>

Digits == <<"0", "1", "2", "3", "4", "5", "6", "7", "8", "9">>

IsDigit(c) == \E d \in 1..10 : Digits[d] = c

DigitVal(c) == (CHOOSE d \in 1..10 : Digits[d] = c) - 1

\* The value JavaScript's NaN is modelled by; no count is negative.
NaN == -1

\* The longest prefix of s made of decimal digits.
RECURSIVE DigitPrefix(_)
DigitPrefix(s) ==
    IF s = <<>> \/ ~IsDigit(Head(s)) THEN <<>>
    ELSE <<Head(s)>> \o DigitPrefix(Tail(s))

RECURSIVE DigitsValue(_)
DigitsValue(ds) ==
    IF ds = <<>> THEN 0
    ELSE 10 * DigitsValue(SubSeq(ds, 1, Len(ds) - 1)) + DigitVal(ds[Len(ds)])

\* parseInt(s, 10) for a string without leading blanks or sign: the value of
\* the leading digits, NaN when there are none.
parseInt(s) ==
    IF DigitPrefix(s) = <<>> THEN NaN ELSE DigitsValue(DigitPrefix(s))

\* String(n) for a non-negative integer.
RECURSIVE String(_)
String(n) ==
    IF n < 10 THEN <<Digits[n + 1]>>
    ELSE String(n \div 10) \o <<Digits[(n % 10) + 1]>>

\* localStorage.getItem("polidle-best") || "0": null and "" are falsy.
StoredOrZero(st) == IF st = Missing \/ st = <<>> THEN <<"0">> ELSE st

\* app.js:116
RestoreBest(st) == parseInt(StoredOrZero(st))

\* a > b on JavaScript numbers: false as soon as one side is NaN.
JsGt(a, b) == a # NaN /\ b # NaN /\ a > b

-----------------------------------------------------------------------------
(* Pure parts of the handlers *)

\* .filter((p) => p.photo)
HasPhoto(p) == p.photo # ""

KeepPhoto(s) == SelectSeq(s, HasPhoto)

\* The switch of setMode.
PoolFor(m, dep, sen) ==
    CASE m = "deputes"   -> dep
      [] m = "senateurs" -> sen
      [] OTHER           -> dep \o sen

Sigles(p) == [i \in 1..Len(p) |-> p[i].groupe_sigle]

\* Boolean(sigle): the empty string is falsy.
Truthy(x) == x # <<>>

\* Mutant: the party list is not sorted.
PartiesOf_Unsorted(p) == SelectSeq(Dedupe(Sigles(p)), Truthy)

\* Mutant: the party list is built from the first record alone.
PartiesOf_FirstRecord(p) ==
    IF p = <<>> THEN <<>>
    ELSE Sort(Dedupe(SelectSeq(Sigles(<<p[1]>>), Truthy)))

\* [...new Set(pool.map((p) => p.groupe_sigle))].filter(Boolean).sort()
PartiesOf(p) == Sort(SelectSeq(Dedupe(Sigles(p)), Truthy))

\* Mutant: the answered guard left out.
GuessIgnored_Never == FALSE

\* if (answered) return;
GuessIgnored == answered

\* Mutant: total++ left out.
NewTotal_Stale == total

\* total++
NewTotal == total + 1

\* guessedSigle === pol.groupe_sigle
IsCorrect(g, pol) == g = pol.groupe_sigle

NewScore(isCorrect) == IF isCorrect THEN score + 1 ELSE score

\* Mutant: a wrong guess does not reset the streak.
NewStreak_KeptOnMiss(isCorrect) == IF isCorrect THEN streak + 1 ELSE streak

NewStreak(isCorrect) == IF isCorrect THEN streak + 1 ELSE 0

NewBest(isCorrect) ==
    IF isCorrect /\ JsGt(streak + 1, bestStreak) THEN streak + 1
    ELSE bestStreak

\* localStorage.setItem("polidle-best", String(bestStreak)) under the same test
NewStorage(isCorrect) ==
    IF isCorrect /\ JsGt(streak + 1, bestStreak) THEN String(streak + 1)
    ELSE storage

\* Mutant: the reveal names the guessed group.
RevealOf_Guessed(g, pol) ==
    [hidden |-> FALSE,
     icon   |-> IF IsCorrect(g, pol) THEN "correct" ELSE "wrong",
     sigle  |-> g]

\* The reveal panel: icon, and the group shown in els.revealGroup.
RevealOf(g, pol) ==
    [hidden |-> FALSE,
     icon   |-> IF IsCorrect(g, pol) THEN "correct" ELSE "wrong",
     sigle  |-> pol.groupe_sigle]

\* Mutant: the increment at the end of handleGuess left out.
IndexAfterGuess_Kept == currentIndex

\* currentIndex++ at the end of handleGuess
IndexAfterGuess == currentIndex + 1

NoReveal == [hidden |-> TRUE, icon |-> "", sigle |-> NoSigle]

Op(name, arg, result) == [op |-> name, arg |-> arg, result |-> result]

NoArg == <<>>

NoFetches == [depN |-> 0, depLast |-> "none", senN |-> 0, senLast |-> "none"]

Outcome(ok) == IF ok THEN "ok" ELSE "failed"

\* fetch("data/deputes.json") was called and ended as `ok` says.
FetchedDeputes(f, ok) ==
    [f EXCEPT !.depN = f.depN + 1, !.depLast = Outcome(ok)]

\* fetch("data/senateurs.json") was called and ended as `ok` says.
FetchedSenateurs(f, ok) ==
    [f EXCEPT !.senN = f.senN + 1, !.senLast = Outcome(ok)]

LateFailure == "late-failure"

\* Record `id` is displayed.
Displayed(S, id) == IF LateFailure \in S THEN S ELSE S \cup {id}

\* shuffle() ran and the first record of the new order is displayed.
PassStart == seen' = IF pool' = <<>> THEN {} ELSE {shown'.id}

-----------------------------------------------------------------------------
(* Init: the module-level state of app.js when DOMContentLoaded calls init() *)

\* What localStorage may hold when the page is first opened: nothing, or a
\* value that is not a number.
InitialStorage == {Missing, <<"x">>}

Init ==
    /\ pc = "loading"
    /\ deputes = <<>>
    /\ senateurs = <<>>
    /\ pool = <<>>
    /\ currentIndex = 0
    /\ score = 0
    /\ total = 0
    /\ streak = 0
    /\ bestStreak = 0
    /\ mode = "both"
    /\ answered = FALSE
    /\ parties = <<>>
    /\ storage \in InitialStorage
    /\ shown = NoPol
    /\ photoPending = FALSE
    /\ buttons = <<>>
    /\ reveal = NoReveal
    /\ lastOp = Op("load", NoArg, "ok")
    /\ fetches = NoFetches
    /\ maxStreak = 0
    /\ consec = 0
    /\ seen = {}

-----------------------------------------------------------------------------
\* Mutant: nextPolitician moves the cursor itself before it displays.
nextPolitician_Advances(p, ci, ps) ==
    IF Len(p) = 0
    THEN /\ pool' = p
         /\ currentIndex' = ci
         /\ UNCHANGED <<answered, shown, photoPending, buttons, reveal>>
    ELSE \E q \in (IF ci + 1 >= Len(p) THEN shuffle(p) ELSE {p}) :
            LET i == IF ci + 1 >= Len(p) THEN 0 ELSE ci + 1
            IN  /\ pool' = q
                /\ currentIndex' = i
                /\ answered' = FALSE
                /\ shown' = q[i + 1]
                /\ photoPending' = TRUE
                /\ reveal' = NoReveal
                /\ buttons' = ps

(* nextPolitician, entered with pool = p, currentIndex = ci, parties = ps *)

nextPolitician(p, ci, ps) ==
    IF Len(p) = 0
    THEN /\ pool' = p
         /\ currentIndex' = ci
         /\ UNCHANGED <<answered, shown, photoPending, buttons, reveal>>
    ELSE \E q \in (IF ci >= Len(p) THEN shuffle(p) ELSE {p}) :
            LET i == IF ci >= Len(p) THEN 0 ELSE ci
            IN  /\ pool' = q
                /\ currentIndex' = i
                /\ answered' = FALSE
                /\ shown' = q[i + 1]
                /\ photoPending' = TRUE
                /\ reveal' = NoReveal
                /\ buttons' = ps

\* Mutant: setMode forgets to reset the streak.
setMode_StreakKept(newMode, dep, sen) ==
    /\ mode' = newMode
    /\ parties' = PartiesOf(PoolFor(newMode, dep, sen))
    /\ score' = 0
    /\ total' = 0
    /\ streak' = streak
    /\ \E q \in shuffle(PoolFor(newMode, dep, sen)) :
            nextPolitician(q, 0, parties')
    /\ consec' = 0
    /\ UNCHANGED maxStreak

(* setMode(newMode), entered with deputes = dep, senateurs = sen *)

setMode(newMode, dep, sen) ==
    /\ mode' = newMode
    /\ parties' = PartiesOf(PoolFor(newMode, dep, sen))
    /\ score' = 0
    /\ total' = 0
    /\ streak' = 0
    /\ \E q \in shuffle(PoolFor(newMode, dep, sen)) :
            nextPolitician(q, 0, parties')
    /\ consec' = 0
    /\ UNCHANGED maxStreak

\* Mutant: init goes on to start a game without looking whether any record
\* was loaded.
InitTail_NoEmptyCheck(dep, sen) ==
    /\ deputes' = dep
    /\ senateurs' = sen
    /\ pc' = "playing"
    /\ bestStreak' = RestoreBest(storage)
    /\ setMode("both", dep, sen)
    /\ PassStart
    /\ lastOp' = Op("init", NoArg, "ok")
    /\ UNCHANGED storage

(* The rest of init() once the fetches are over (app.js:109-128) *)

InitTail(dep, sen) ==
    /\ deputes' = dep
    /\ senateurs' = sen
    /\ IF Len(dep) = 0 /\ Len(sen) = 0
       THEN /\ pc' = "error"
            /\ lastOp' = Op("init", NoArg, "error-screen")
            /\ UNCHANGED <<pool, currentIndex, score, total, streak,
                           bestStreak, mode, answered, parties, storage,
                           shown, photoPending, buttons, reveal,
                           maxStreak, consec, seen>>
       ELSE /\ pc' = "playing"
            /\ bestStreak' = RestoreBest(storage)
            /\ setMode("both", dep, sen)
            /\ PassStart
            /\ lastOp' = Op("init", NoArg, "ok")
            /\ UNCHANGED storage

\* Promise.all resolves: both resources were fetched and parsed.
FetchBothOk ==
    /\ pc = "loading"
    /\ fetches' = FetchedSenateurs(FetchedDeputes(fetches, TRUE), TRUE)
    /\ InitTail(KeepPhoto(DeputesJson), KeepPhoto(SenateursJson))

\* Promise.all rejects, because at least one of the two fetches failed: the
\* catch block starts the individual fetches.
FetchBothFail(depOk, senOk) ==
    /\ pc = "loading"
    /\ ~(depOk /\ senOk)
    /\ pc' = "retryDeputes"
    /\ fetches' = FetchedSenateurs(FetchedDeputes(fetches, depOk), senOk)
    /\ lastOp' = Op("init", NoArg, "catch")
    /\ UNCHANGED <<deputes, senateurs, pool, currentIndex, score, total,
                   streak, bestStreak, mode, answered, parties, storage,
                   shown, photoPending, buttons, reveal, maxStreak,
                   consec, seen>>

\* The array deputes is given by the individual fetch (app.js:100-101).
RetriedDeputes(ok) == IF ok THEN DeputesJson ELSE deputes

\* Mutant: the individual fetch of senateurs.json drops what it got.
RetriedSenateurs_Dropped(ok) == senateurs

\* The array senateurs is given by the individual fetch (app.js:104-105).
RetriedSenateurs(ok) == IF ok THEN SenateursJson ELSE senateurs

RetryDeputes(ok) ==
    /\ pc = "retryDeputes"
    /\ pc' = "retrySenateurs"
    /\ deputes' = RetriedDeputes(ok)
    /\ fetches' = FetchedDeputes(fetches, ok)
    /\ lastOp' = Op("init", NoArg, "retry")
    /\ UNCHANGED <<senateurs, pool, currentIndex, score, total, streak,
                   bestStreak, mode, answered, parties, storage, shown,
                   photoPending, buttons, reveal, maxStreak, consec, seen>>

RetrySenateurs(ok) ==
    /\ pc = "retrySenateurs"
    /\ fetches' = FetchedSenateurs(fetches, ok)
    /\ InitTail(deputes, RetriedSenateurs(ok))


-----------------------------------------------------------------------------
(* handleGuess(guessedSigle) *)

Max(a, b) == IF a > b THEN a ELSE b

handleGuess(g) ==
    /\ UNCHANGED <<pc, deputes, senateurs, pool, mode, parties, shown,
                   photoPending, buttons, fetches, seen>>
    /\ IF GuessIgnored
       THEN /\ lastOp' = Op("handleGuess", NoArg, "ignored")
            /\ UNCHANGED <<answered, total, score, streak, bestStreak,
                           storage, reveal, currentIndex, maxStreak, consec>>
       ELSE IF currentIndex >= Len(pool)
       THEN \* pool[currentIndex] is undefined: reading pol.groupe_sigle
            \* throws after the first two assignments.
            /\ answered' = TRUE
            /\ total' = NewTotal
            /\ lastOp' = Op("handleGuess", g, "TypeError")
            /\ UNCHANGED <<score, streak, bestStreak, storage, reveal,
                           currentIndex, maxStreak, consec>>
       ELSE LET pol == pool[currentIndex + 1]
            IN  /\ answered' = TRUE
                /\ total' = NewTotal
                /\ score' = NewScore(IsCorrect(g, pol))
                /\ streak' = NewStreak(IsCorrect(g, pol))
                /\ bestStreak' = NewBest(IsCorrect(g, pol))
                /\ storage' = NewStorage(IsCorrect(g, pol))
                /\ reveal' = RevealOf(g, pol)
                /\ currentIndex' = IndexAfterGuess
                /\ lastOp' = Op("handleGuess", g, "ok")
                /\ maxStreak' = Max(maxStreak, streak')
                /\ consec' = IF g = pol.groupe_sigle THEN consec + 1 ELSE 0

\* The model stops accepting guesses once total has reached MaxTotal.
WithinBound == answered \/ total < MaxTotal

\* Click on the i-th rendered party button (app.js:234).
ClickParty(i) ==
    /\ pc = "playing"
    /\ i \in 1..Len(buttons)
    /\ WithinBound
    /\ handleGuess(buttons[i])

-----------------------------------------------------------------------------
(* Advance *)

Advance ==
    /\ nextPolitician(pool, currentIndex, parties)
    /\ lastOp' = Op("nextPolitician", NoArg,
                    IF Len(pool) = 0 THEN "empty"
                    ELSE IF currentIndex >= Len(pool) THEN "reshuffled"
                    ELSE "ok")
    /\ seen' = IF Len(pool) = 0 THEN seen
               ELSE IF currentIndex >= Len(pool) THEN {shown'.id}
               ELSE Displayed(seen, shown'.id)
    /\ UNCHANGED <<pc, deputes, senateurs, score, total, streak, bestStreak,
                   mode, parties, storage, fetches, maxStreak, consec>>

\* Click on the next button (app.js:120).
ClickNext ==
    /\ pc = "playing"
    /\ Advance

-----------------------------------------------------------------------------
(* Mode buttons (app.js:134-142) *)

Modes == {"both", "deputes", "senateurs"}

ClickMode(m) ==
    /\ pc = "playing"
    /\ setMode(m, deputes, senateurs)
    /\ PassStart
    /\ lastOp' = Op("setMode", NoArg, "ok")
    /\ UNCHANGED <<pc, deputes, senateurs, bestStreak, storage, fetches>>

-----------------------------------------------------------------------------
(* Keyboard (app.js:300-315) *)

Keys == {"Enter", " ", "1", "2", "3"}

\* e.key >= "1" && e.key <= "9"
IsChoiceKey(k) == IsDigit(k) /\ DigitVal(k) >= 1

\* What the handler takes the key for: a party choice, the confirmation, or
\* neither.
KeyClass(k) ==
    IF IsChoiceKey(k) THEN "choice"
    ELSE IF k = "Enter" \/ k = " " THEN "confirm"
    ELSE "other"

\* Mutant: the key's digit is used as the index without the offset.
KeyIndex_NoOffset(k) == parseInt(<<k>>)

\* parseInt(e.key, 10) - 1
KeyIndex(k) == parseInt(<<k>>) - 1

handleKeydown(k) ==
    IF answered /\ (k = "Enter" \/ k = " ")
    THEN Advance
    ELSE IF ~answered /\ IsChoiceKey(k) /\ KeyIndex(k) < Len(parties)
    THEN /\ WithinBound
         /\ handleGuess(parties[KeyIndex(k) + 1])
    ELSE /\ lastOp' = Op("keydown", <<KeyClass(k)>>, "ignored")
         /\ UNCHANGED <<pc, deputes, senateurs, pool, currentIndex, score,
                        total, streak, bestStreak, mode, answered, parties,
                        storage, shown, photoPending, buttons, reveal,
                        fetches, maxStreak, consec, seen>>

KeyDown(k) ==
    /\ pc = "playing"
    /\ handleKeydown(k)

-----------------------------------------------------------------------------
(* The photo request of the displayed record completes *)

\* els.photo.onerror (app.js:190-196)
onerror ==
    IF Len(Splice1(pool, currentIndex)) = 0
    THEN /\ pool' = Splice1(pool, currentIndex)
         /\ photoPending' = FALSE
         /\ UNCHANGED <<currentIndex, answered, shown, buttons, reveal>>
    ELSE nextPolitician(Splice1(pool, currentIndex),
                        IF currentIndex >= Len(Splice1(pool, currentIndex))
                        THEN 0 ELSE currentIndex,
                        parties)

PhotoError ==
    /\ pc = "playing"
    /\ photoPending
    /\ onerror
    /\ lastOp' = Op("onerror", NoArg, "ok")
    /\ seen' = IF answered THEN {LateFailure}
               ELSE IF pool' = <<>> THEN seen \ {shown.id}
               ELSE IF currentIndex' < currentIndex THEN {shown'.id}
               ELSE Displayed(seen \ {shown.id}, shown'.id)
    /\ UNCHANGED <<pc, deputes, senateurs, score, total, streak, bestStreak,
                   mode, parties, storage, fetches, maxStreak, consec>>

\* The image loads: nothing of the engine runs.  An empty src never loads.
PhotoLoad ==
    /\ pc = "playing"
    /\ photoPending
    /\ HasPhoto(shown)
    /\ photoPending' = FALSE
    /\ lastOp' = Op("onload", NoArg, "ok")
    /\ UNCHANGED <<pc, deputes, senateurs, pool, currentIndex, score, total,
                   streak, bestStreak, mode, answered, parties, storage,
                   shown, buttons, reveal, fetches, maxStreak, consec,
                   seen>>

-----------------------------------------------------------------------------
(* The page is loaded again: every variable of app.js starts anew, *)
(* localStorage is kept (app.js:42-52, 356).                        *)

Reload ==
    /\ pc' = "loading"
    /\ deputes' = <<>>
    /\ senateurs' = <<>>
    /\ pool' = <<>>
    /\ currentIndex' = 0
    /\ score' = 0
    /\ total' = 0
    /\ streak' = 0
    /\ bestStreak' = 0
    /\ mode' = "both"
    /\ answered' = FALSE
    /\ parties' = <<>>
    /\ shown' = NoPol
    /\ photoPending' = FALSE
    /\ buttons' = <<>>
    /\ reveal' = NoReveal
    /\ lastOp' = Op("load", NoArg, "ok")
    /\ fetches' = NoFetches
    /\ consec' = 0
    /\ seen' = {}
    /\ UNCHANGED <<storage, maxStreak>>

-----------------------------------------------------------------------------

Next ==
    \/ FetchBothOk
    \/ \E depOk, senOk \in BOOLEAN : FetchBothFail(depOk, senOk)
    \/ \E ok \in BOOLEAN : RetryDeputes(ok)
    \/ \E ok \in BOOLEAN : RetrySenateurs(ok)
    \/ \E i \in 1..2 : ClickParty(i)
    \/ ClickNext
    \/ \E m \in Modes : ClickMode(m)
    \/ \E k \in Keys : KeyDown(k)
    \/ PhotoError
    \/ PhotoLoad
    \/ Reload

Spec == Init /\ [][Next]_vars

-----------------------------------------------------------------------------
(* Vocabulary of the properties *)

IdsOf(p) == {p[i].id : i \in 1..Len(p)}

\* The step was made by handler `name` (every action sets lastOp).
StepOf(name) == lastOp'.op = name

\* The step is a call of handleGuess that got past the answered guard and
\* found a candidate at pool[currentIndex].
JudgedGuess == StepOf("handleGuess") /\ lastOp'.result = "ok"

\* While a candidate awaits its guess, it is the one at the cursor.
ShownIsCurrent ==
    (pc = "playing" /\ ~answered /\ pool # <<>>)
        => (currentIndex < Len(pool) /\ shown = pool[currentIndex + 1])

-----------------------------------------------------------------------------
\* C1: when a photo failure is reported for the displayed candidate, that
\* candidate and no other leaves the pool, whatever was done since it was
\* displayed, and (if a candidate is left) another one is displayed.
C1_PhotoFailureRemovesShown ==
    [][StepOf("onerror") =>
          /\ IdsOf(pool') = IdsOf(pool) \ {shown.id}
          /\ (pool' # <<>> => shown'.id # shown.id)]_vars

\* What does hold of the hook: a failure reported before the displayed
\* candidate was guessed removes that candidate and no other.
OnErrorBeforeGuessRemovesShown ==
    [][(StepOf("onerror") /\ ~answered) =>
          /\ IdsOf(pool') = IdsOf(pool) \ {shown.id}
          /\ (pool' # <<>> => shown'.id # shown.id)]_vars

\* C2 as stated: an accepted guess leaves the cursor where it was.
C2_GuessKeepsCursor ==
    [][JudgedGuess => currentIndex' = currentIndex]_vars

\* C2 amended: an accepted guess on a candidate moves the cursor forward by
\* exactly one and changes neither the pool nor the displayed candidate; an
\* ignored guess leaves the cursor alone; the advance operation never moves
\* the cursor forward: it leaves it, or takes it from the end of the pool
\* back to 0.
C2_GuessMovesCursorByOne ==
    [][/\ JudgedGuess =>
            /\ currentIndex' = currentIndex + 1
            /\ pool' = pool
            /\ shown' = shown
       /\ (StepOf("handleGuess") /\ ~JudgedGuess) =>
            currentIndex' = currentIndex
       /\ StepOf("nextPolitician") =>
            currentIndex' = (IF pool # <<>> /\ currentIndex >= Len(pool)
                             THEN 0 ELSE currentIndex)]_vars

C2_Witness ==
    /\ lastOp.op = "handleGuess"
    /\ lastOp.result = "ok"
    /\ currentIndex = 2
    /\ shown = pool[2]

\* C3: every record of the play pool has a photo and a group sigle.
C3_PoolRecordsComplete ==
    \A i \in 1..Len(pool) : pool[i].photo # "" /\ pool[i].groupe_sigle # <<>>

-----------------------------------------------------------------------------
\* C4: score never exceeds total; a call of handleGuess made while the
\* candidate is unanswered adds exactly 1 to total, and nothing else ever
\* makes total grow.
C4_TotalCountsAcceptedGuesses ==
    [][/\ score <= total
       /\ score' <= total'
       /\ (StepOf("handleGuess") /\ ~answered) => total' = total + 1
       /\ total' > total => (StepOf("handleGuess") /\ ~answered)]_vars

C4_Witness ==
    /\ lastOp.op = "handleGuess"
    /\ lastOp.result = "ok"
    /\ total = 2
    /\ score = 1

\* C5: in a started game bestStreak is the greatest value streak ever had,
\* so it is never below streak, and it never decreases.
C5_BestIsMaxStreak ==
    pc = "playing" => (bestStreak = maxStreak /\ bestStreak >= streak)

\* What does hold of bestStreak: it never changes downwards within one page
\* load, and it is the greatest streak ever had unless the stored value
\* parsed to NaN.
BestStreakWhenStoredIsNumeric ==
    (pc = "playing" /\ bestStreak # NaN)
        => (bestStreak = maxStreak /\ bestStreak >= streak
            /\ storage = (IF bestStreak = 0 /\ storage = Missing
                          THEN Missing ELSE String(bestStreak)))

\* C6: a guess accepted on the displayed candidate, whose sigle is c: if
\* the guess is c, score and streak grow by 1 and the reveal is marked
\* correct; otherwise score and bestStreak stay, streak becomes 0 and the
\* reveal is marked wrong; either way the reveal shows c.
C6_GuessOutcome ==
    [][JudgedGuess =>
          /\ ~reveal'.hidden
          /\ reveal'.sigle = shown.groupe_sigle
          /\ IF lastOp'.arg = shown.groupe_sigle
             THEN /\ score' = score + 1
                  /\ streak' = streak + 1
                  /\ reveal'.icon = "correct"
             ELSE /\ score' = score
                  /\ streak' = 0
                  /\ bestStreak' = bestStreak
                  /\ reveal'.icon = "wrong"]_vars

\* A wrong guess was revealed: the panel shows the candidate's sigle, which
\* is not the guessed one.
C6_Witness ==
    /\ lastOp.op = "handleGuess"
    /\ lastOp.result = "ok"
    /\ reveal.icon = "wrong"
    /\ reveal.sigle = EPR
    /\ lastOp.arg = RN
    /\ score = 1

\* C7: a call of handleGuess made while answered changes nothing of the
\* game.
C7_SecondGuessIgnored ==
    [][(StepOf("handleGuess") /\ answered) =>
          /\ answered'
          /\ UNCHANGED <<score, total, streak, bestStreak, storage,
                         currentIndex, pool, shown, reveal>>]_vars

C7_Witness ==
    /\ lastOp.op = "handleGuess"
    /\ lastOp.result = "ignored"
    /\ answered
    /\ total = 1
    /\ streak = 1

-----------------------------------------------------------------------------
\* C8: streak is always the number of guesses judged correct since the last
\* guess judged wrong or the last mode switch; it is 0 right after a wrong
\* guess and 1 right after a correct guess that follows a wrong one; advances
\* and photo failures leave it alone.
C8_StreakCountsConsecutiveCorrect ==
    [][/\ streak = consec
       /\ streak' = consec'
       /\ (JudgedGuess /\ lastOp'.arg # shown.groupe_sigle) => streak' = 0
       /\ (JudgedGuess /\ lastOp'.arg = shown.groupe_sigle /\ streak = 0)
             => streak' = 1
       /\ (StepOf("nextPolitician") \/ StepOf("onerror"))
             => streak' = streak]_vars

\* A correct guess right after a wrong one.
C8_Witness ==
    /\ lastOp.op = "handleGuess"
    /\ lastOp.result = "ok"
    /\ reveal.icon = "correct"
    /\ total = 2
    /\ score = 1
    /\ streak = 1

\* The sequence is strictly increasing in the order of Array.prototype.sort.
RECURSIVE StrictlySorted(_)
StrictlySorted(s) ==
    \/ Len(s) <= 1
    \/ /\ StrLess(s[1], s[2])
       /\ StrictlySorted(Tail(s))

\* The loaded records a mode selects.
SelectedIds(m) ==
    CASE m = "deputes"   -> IdsOf(deputes)
      [] m = "senateurs" -> IdsOf(senateurs)
      [] OTHER           -> IdsOf(deputes) \cup IdsOf(senateurs)

\* C9: right after a mode switch the pool holds each loaded record of the
\* selected chamber(s) once and nothing else, and parties is the strictly
\* increasing sequence of the non-empty sigles found in that pool.
C9_ModeRebuildsPoolAndParties ==
    (pc = "playing" /\ lastOp.op \in {"setMode", "init"}) =>
        /\ IdsOf(pool) = SelectedIds(mode)
        /\ Len(pool) = Cardinality(SelectedIds(mode))
        /\ Range(pool) \subseteq Range(deputes) \cup Range(senateurs)
        /\ StrictlySorted(parties)
        /\ Range(parties) = {pool[i].groupe_sigle : i \in 1..Len(pool)} \ {<<>>}

\* Sigles RN, EPR, RN in the new pool give parties [EPR, RN].
C9_Witness ==
    /\ lastOp.op = "setMode"
    /\ mode = "both"
    /\ Len(pool) = 3
    /\ Cardinality({i \in 1..3 : pool[i].groupe_sigle = RN}) = 2
    /\ parties = <<EPR, RN>>

\* C10: a mode switch sets score, total and streak to 0 and changes neither
\* bestStreak nor the stored value.
C10_ModeSwitchResetsCounters ==
    [][StepOf("setMode") =>
          /\ score' = 0
          /\ total' = 0
          /\ streak' = 0
          /\ bestStreak' = bestStreak
          /\ storage' = storage]_vars

\* A mode switch made after a streak: the counters are back to 0, the best
\* streak and its stored copy are kept.
C10_Witness ==
    /\ lastOp.op = "setMode"
    /\ score = 0
    /\ total = 0
    /\ streak = 0
    /\ bestStreak = 2
    /\ storage = <<"2">>

-----------------------------------------------------------------------------
\* The input of the step does not fit the turn: a guess (button or digit key)
\* while answered, or an advance (next button, Enter or Space) while not.
MismatchedInput ==
    \/ answered /\ StepOf("handleGuess")
    \/ answered /\ StepOf("keydown") /\ lastOp'.arg = <<"choice">>
    \/ ~answered /\ StepOf("nextPolitician")
    \/ ~answered /\ StepOf("keydown") /\ lastOp'.arg = <<"confirm">>

\* C11: a guess or a digit key while answered, and an advance (Enter, Space
\* or the next button) while not answered, leave pool, currentIndex,
\* answered, score, total, streak and bestStreak as they were and throw
\* nothing.
C11_MismatchedInputIsNoOp ==
    [][MismatchedInput =>
          /\ UNCHANGED <<pool, currentIndex, answered, score, total, streak,
                         bestStreak>>
          /\ lastOp'.result # "TypeError"]_vars

\* The next button was pressed on a candidate that had no guess yet: the
\* cursor is still on the first record of the pass.
C11_Witness ==
    /\ lastOp.op = "nextPolitician"
    /\ lastOp.result = "ok"
    /\ ~answered
    /\ currentIndex = 0
    /\ total = 1

-----------------------------------------------------------------------------
\* The stored text is the decimal writing of a non-negative integer.
ValidCount(st) == st # <<>> /\ DigitPrefix(st) = st

\* C12: when init has read a stored value that is missing or is not the
\* writing of a non-negative integer, bestStreak is the number 0; a correct
\* guess made then, on a streak of 0, raises bestStreak to 1.
C12_UnreadableStoredBestIsZero ==
    /\ (lastOp.op = "init" /\ lastOp.result = "ok" /\ ~ValidCount(storage))
           => bestStreak = 0
    /\ (lastOp.op = "handleGuess" /\ lastOp.result = "ok" /\ streak = 1
        /\ maxStreak = 1)
           => bestStreak = 1

-----------------------------------------------------------------------------
\* init is over: the combined fetch and, after its failure, both individual
\* fetches have ended.
FetchesOver == pc \notin {"loading", "retryDeputes", "retrySenateurs"}

\* The error screen is up and nothing of a game exists: no pool, no party
\* list, no button, no candidate, bestStreak as declared.
ErrorState ==
    /\ pc = "error"
    /\ pool = <<>>
    /\ parties = <<>>
    /\ buttons = <<>>
    /\ shown = NoPol
    /\ ~photoPending
    /\ bestStreak = 0
    /\ score = 0 /\ total = 0 /\ streak = 0

\* C13: when init ends with deputes and senateurs both empty, the page is
\* in the error state with no game set up and bestStreak not read; from
\* that state no handler of the page runs and no fetch is made: only
\* loading the page again leaves it.
C13_BothEmptyIsTerminalError ==
    [][/\ (StepOf("init") /\ FetchesOver' /\ deputes' = <<>>
           /\ senateurs' = <<>>) => ErrorState'
       /\ pc = "error" => (StepOf("load") /\ ErrorState)]_vars

\* The error screen after all four fetches failed, with a best streak in
\* localStorage that was not read.
C13_Witness ==
    /\ pc = "error"
    /\ lastOp.op = "init"
    /\ fetches = [depN |-> 2, depLast |-> "failed",
                  senN |-> 2, senLast |-> "failed"]
    /\ storage = <<"1">>
    /\ bestStreak = 0

-----------------------------------------------------------------------------
\* C14: when init ends after the individual fetches and exactly one of the
\* two resources was obtained, a game is started (no error screen) with
\* that resource's records as they are in the file and no record of the
\* other chamber; each resource was requested once by the combined fetch
\* and once individually, never more.
C14_OneResourceIsEnough ==
    [][(StepOf("init") /\ FetchesOver' /\ pc = "retrySenateurs") =>
          /\ fetches'.depN = 2 /\ fetches'.senN = 2
          /\ (fetches'.depLast = "ok" /\ fetches'.senLast = "failed") =>
                /\ pc' = "playing"
                /\ deputes' = DeputesJson
                /\ senateurs' = <<>>
                /\ IdsOf(pool') = IdsOf(DeputesJson)
          /\ (fetches'.depLast = "failed" /\ fetches'.senLast = "ok") =>
                /\ pc' = "playing"
                /\ senateurs' = SenateursJson
                /\ deputes' = <<>>
                /\ IdsOf(pool') = IdsOf(SenateursJson)]_vars

\* A game started with the senators alone: deputes.json failed twice,
\* senateurs.json failed in the combined fetch and came alone afterwards.
C14_Witness ==
    /\ pc = "playing"
    /\ lastOp.op = "init"
    /\ fetches = [depN |-> 2, depLast |-> "failed",
                  senN |-> 2, senLast |-> "ok"]
    /\ deputes = <<>>
    /\ senateurs = SenateursJson
    /\ pool = SenateursJson

-----------------------------------------------------------------------------
\* Every step of handleKeydown is marked in lastOp as a keydown, a
\* handleGuess or a nextPolitician: no other step can be one of KeyDown(k).
MayBeKeyStep == lastOp'.op \in {"keydown", "handleGuess", "nextPolitician"}

\* C15: on a keydown while not answered, a digit key k from 1 up to the
\* length of parties calls handleGuess with parties[k], which is also the
\* sigle of the k-th button on screen, and a digit key above that length
\* changes nothing; on a keydown while answered, Enter or Space calls
\* nextPolitician.
C15_KeysDispatch ==
    [][MayBeKeyStep => \A k \in Keys : KeyDown(k) =>
          /\ (~answered /\ IsChoiceKey(k) /\ DigitVal(k) <= Len(parties)) =>
                /\ StepOf("handleGuess")
                /\ lastOp'.result # "ignored"
                /\ lastOp'.arg = parties[DigitVal(k)]
                /\ Len(buttons) >= DigitVal(k)
                /\ buttons[DigitVal(k)] = parties[DigitVal(k)]
          /\ (~answered /\ IsChoiceKey(k) /\ DigitVal(k) > Len(parties)) =>
                /\ StepOf("keydown")
                /\ UNCHANGED <<pc, deputes, senateurs, pool, currentIndex,
                               score, total, streak, bestStreak, mode,
                               answered, parties, storage, shown,
                               photoPending, buttons, reveal>>
          /\ (answered /\ (k = "Enter" \/ k = " ")) =>
                StepOf("nextPolitician")]_vars

\* A digit key above the number of parties was pressed on a candidate that
\* awaits its guess, in a game with two guesses made: nothing was guessed.
C15_Witness ==
    /\ lastOp = Op("keydown", <<"choice">>, "ignored")
    /\ ~answered
    /\ pool # <<>>
    /\ Len(parties) = 2
    /\ total = 2

-----------------------------------------------------------------------------
\* The step is within one game: neither a page load, nor init, nor a mode
\* switch.
WithinGame == ~(StepOf("load") \/ StepOf("init") \/ StepOf("setMode"))

\* C16: within a game and outside a mode switch the cursor decreases only
\* by returning to 0, and every return to 0, after an advance at the end of
\* the pool or after a photo failure removed the last record of the pool
\* order, comes with a shuffle of the whole pool in the same step; a
\* shuffle keeps the records and the length of the pool.
C16_WrapReshuffles ==
    [][WithinGame =>
          /\ currentIndex' < currentIndex =>
                /\ currentIndex' = 0
                /\ lastOp'.result = "reshuffled"
          /\ lastOp'.result = "reshuffled" =>
                /\ pool' \in shuffle(pool)
                /\ IdsOf(pool') = IdsOf(pool)
                /\ Len(pool') = Len(pool)]_vars

-----------------------------------------------------------------------------
\* C17: after every mode switch of a started game the candidate awaits its
\* guess, the cursor is 0, and the first record of the newly shuffled pool
\* is the one displayed, with its photo requested and the buttons of the
\* new party list.
C17_ModeSwitchShowsFirst ==
    (pc = "playing" /\ lastOp.op = "setMode") =>
        /\ ~answered
        /\ currentIndex = 0
        /\ pool # <<>>
        /\ shown = pool[1]
        /\ shown.id \in SelectedIds(mode)
        /\ buttons = parties
        /\ reveal = NoReveal

-----------------------------------------------------------------------------
\* C18: in a started game the cursor is between 0 and the length of the
\* pool, and it is below that length whenever the candidate awaits its
\* guess, so that handleGuess always finds a record at pool[currentIndex]
\* and never throws; this also after photo failures emptied the pool and
\* after a switch to a mode without records.
C18_GuessFindsCandidate ==
    pc = "playing" =>
        /\ 0 <= currentIndex
        /\ currentIndex <= Len(pool)
        /\ ~answered => currentIndex < Len(pool)
        /\ lastOp.result # "TypeError"

-----------------------------------------------------------------------------
\* The step puts a candidate on screen for a new turn: an advance from an
\* answered candidate, or the replacement of a candidate whose photo failed.
NewTurn ==
    \/ StepOf("nextPolitician") /\ answered /\ pool # <<>>
    \/ StepOf("onerror") /\ pool' # <<>>

\* No photo failure was reported on an answered candidate, in this step or
\* earlier in the pass.
FailuresOnlyUnanswered == LateFailure \notin seen /\ LateFailure \notin seen'

\* C19: as long as photo failures come only on candidates that await their
\* guess, a new turn that is not the first of a reshuffled pool presents a
\* record not yet presented since the last reshuffle, and when the pool is
\* reshuffled every record still in it has been presented.
C19_EachRecordOncePerPass ==
    [][FailuresOnlyUnanswered =>
          /\ (NewTurn /\ lastOp'.result # "reshuffled") =>
                shown'.id \notin seen
          /\ lastOp'.result = "reshuffled" => IdsOf(pool) \subseteq seen]_vars

\* What does hold of a pass: the same, for every step but the one in which
\* the onerror hook takes the cursor back to 0.
EachRecordOnceUnlessOnErrorWraps ==
    [][(FailuresOnlyUnanswered
        /\ ~(StepOf("onerror") /\ currentIndex' < currentIndex)) =>
          /\ (NewTurn /\ lastOp'.result # "reshuffled") =>
                shown'.id \notin seen
          /\ lastOp'.result = "reshuffled" => IdsOf(pool) \subseteq seen]_vars

-----------------------------------------------------------------------------
\* Every record that was loaded has a non-empty groupe_sigle.
AllHaveSigle ==
    \A p \in Range(deputes) \cup Range(senateurs) : p.groupe_sigle # NoSigle

\* C20: in a started game whose loaded records all have a sigle, the sigle
\* of every record of the pool, the one at the cursor included, is in
\* parties, and the sigle of the displayed candidate is on one of the
\* buttons; this also after photo failures have removed records, which
\* leaves parties as it was.
C20_CorrectChoiceOffered ==
    (pc = "playing" /\ AllHaveSigle) =>
        /\ \A i \in 1..Len(pool) : pool[i].groupe_sigle \in Range(parties)
        /\ pool # <<>> =>
              /\ shown.groupe_sigle \in Range(buttons)
              /\ buttons = parties

\* A photo failure has removed the only record of a group: parties still
\* lists that group and every group of the records left.
C20_Witness ==
    /\ pc = "playing"
    /\ AllHaveSigle
    /\ lastOp.op = "onerror"
    /\ pool # <<>>
    /\ ~answered
    /\ parties = <<EPR, RN>>
    /\ \A i \in 1..Len(pool) : pool[i].groupe_sigle = RN

=============================================================================
